---- MODULE Spec2Model ----
(***************************************************************************)
(* A model of CodeTextify.py: the pruned directory walk (walk_code_files), *)
(* the staging copier (copy_code_files), the merge planner/writer          *)
(* (merge_text_files with its closure write_buffer) and the driver (main). *)
(*                                                                         *)
(* Text is modelled as a sequence of one-character strings, so that        *)
(* len(), slicing, endswith(), lower(), strip(), rfind() and re.sub() are  *)
(* computed on characters as the code computes them.                       *)
(***************************************************************************)
EXTENDS Integers, Sequences, FiniteSets, TLC

VARIABLES
    \* ---- walk_code_files ----
    tree,        \* the directory tree below (and including) the scan root
    extensions,  \* the requested extension strings
    pending,     \* directories os.walk still has to visit (top-down)
    visited,     \* directories os.walk has produced as `root`
    yielded      \* the (root, filename) pairs the generator has yielded

VARIABLES
    \* ---- main ----
    mainPc,           \* the step main is about to execute
    argv,             \* sys.argv[1:]
    file_extensions,  \* CONFIG['file_extensions']
    source_exists,    \* os.path.exists(source_path)
    txts_state,       \* the staging folder: "absent", "stale", "empty", "filled"
    merged_state,     \* the output folder, likewise
    calls,            \* the filesystem-mutating functions main has invoked
    main_result       \* "running", or what main returned: "success"/"failure"

VARIABLES
    \* ---- copy_code_files ----
    os_sep,        \* os.sep of the platform
    matched,       \* the files walk_code_files yields, in its order
    copy_i,        \* index of the next matched file (the for loop)
    keys,          \* unique_key computed for each processed file
    staging,       \* staging folder: key -> whose bytes <key>.txt holds
    file_map,      \* file_map: key -> original_filename, rel_path
    copied_count,
    error_count,
    map_on_disk,   \* file_map.json: whether it was saved, and the mapping
    copyPc,        \* "loop", "save_map", "done"
    copy_result,   \* what copy_code_files returned (meaningful when done)
    copy_ok        \* bookkeeping: per attempt, whether shutil.copy2 returned

VARIABLES
    \* ---- merge_text_files ----
    max_chars,            \* CONFIG['max_chars_per_file']
    merge_map,            \* file_map as loaded from file_map.json
    fallback_mode,
    source_files,         \* the staged .txt files, sorted
    merge_i,              \* index of the next staged file (the for loop)
    file_index,
    merged_count,
    buffer_files,
    buffer_content_size,
    outputs,              \* the files written to the output folder
    mergePc,              \* "start", "loop", "carve", "parts", "done"
    cur,                  \* name, path and text of the file being split
    splits,
    temp_offset,
    part_i,               \* index of the next part to write
    write_faults,         \* writes the disk may still refuse
    merge_result,         \* what merge_text_files returned (when done)
    normal_flushes,       \* bookkeeping: buffers written as prefix-N.txt
    targets,              \* bookkeeping: the names write_buffer opened, in order
    completed_splits,     \* bookkeeping: oversized files fully handled
    failed_writes         \* bookkeeping: writes that raised

mergeVars == <<max_chars, merge_map, fallback_mode, source_files, merge_i,
               file_index, merged_count, buffer_files, buffer_content_size,
               outputs, mergePc, cur, splits, temp_offset, part_i,
               write_faults, merge_result, normal_flushes, targets,
               completed_splits,
               failed_writes>>
copyVars == <<os_sep, matched, copy_i, keys, staging, file_map, copied_count,
              error_count, map_on_disk, copyPc, copy_result, copy_ok>>
walkVars == <<tree, extensions, pending, visited, yielded>>
mainVars == <<mainPc, argv, file_extensions, source_exists, txts_state,
              merged_state, calls, main_result>>

vars == <<walkVars, mainVars, copyVars, mergeVars>>

notWalkVars == <<mainVars, copyVars, mergeVars>>
notMainVars == <<walkVars, copyVars, mergeVars>>
notCopyVars == <<walkVars, mainVars, mergeVars>>
notMergeVars == <<walkVars, mainVars, copyVars>>

(***************************************************************************)
(* Text helpers                                                            *)
(***************************************************************************)
UpperLetters == <<"A","B","C","D","E","F","G","H","I","J","K","L","M",
                  "N","O","P","Q","R","S","T","U","V","W","X","Y","Z">>
LowerLetters == <<"a","b","c","d","e","f","g","h","i","j","k","l","m",
                  "n","o","p","q","r","s","t","u","v","w","x","y","z">>

\* str.lower() on one character (ASCII letters; every other character is kept)
LowerChar(c) ==
    IF \E i \in DOMAIN UpperLetters : UpperLetters[i] = c
    THEN LowerLetters[CHOOSE i \in DOMAIN UpperLetters : UpperLetters[i] = c]
    ELSE c

\* str.lower()
Lower(s) == [i \in DOMAIN s |-> LowerChar(s[i])]

\* str.endswith(suffix): plain, case-sensitive suffix comparison
EndsWith(s, suffix) ==
    /\ Len(suffix) <= Len(s)
    /\ SubSeq(s, Len(s) - Len(suffix) + 1, Len(s)) = suffix

(***************************************************************************)
(* Configuration: the ignore sets, lower-cased as CONFIG stores them       *)
(***************************************************************************)
IGNORED_FOLDERS_LIST ==
    { <<".","g","i","t">>,
      <<"n","o","d","e","_","m","o","d","u","l","e","s">>,
      <<".","g","o","d","o","t">>,
      <<"_","_","p","y","c","a","c","h","e","_","_">>,
      <<"b","u","i","l","d">>,
      <<"d","i","s","t">>,
      <<"o","u","t">>,
      <<"b","i","n">>,
      <<"t","a","r","g","e","t">>,
      <<".","g","r","a","d","l","e">>,
      <<".","i","d","e","a">>,
      <<".","v","s","c","o","d","e">>,
      <<"v","e","n","v">>,
      <<"e","n","v">>,
      <<".","p","y","t","e","s","t","_","c","a","c","h","e">>,
      <<"c","o","v","e","r","a","g","e">>,
      <<".","n","e","x","t">>,
      <<"p","u","b","l","i","c">>,
      <<"n","p","m","_","m","o","d","u","l","e","s">>,
      <<".","c","a","c","h","e">>,
      <<"v","i","b","e","s","t","u","d","i","o">> }

ignored_folders == { Lower(k) : k \in IGNORED_FOLDERS_LIST }

IGNORED_FILES_LIST ==
    { <<"p","a","c","k","a","g","e","-","l","o","c","k",".","j","s","o","n">>,
      <<"y","a","r","n",".","l","o","c","k">>,
      <<"p","n","p","m","-","l","o","c","k",".","y","a","m","l">>,
      <<"C","a","r","g","o",".","l","o","c","k">>,
      <<"c","o","m","p","o","s","e","r",".","l","o","c","k">>,
      <<"G","e","m","f","i","l","e",".","l","o","c","k">>,
      <<".","e","n","v">>,
      <<".","e","n","v",".","l","o","c","a","l">>,
      <<"L","I","C","E","N","S","E">>,
      <<"C","H","A","N","G","E","L","O","G",".","m","d">>,
      <<".","g","i","t","i","g","n","o","r","e">>,
      <<".","g","i","t","a","t","t","r","i","b","u","t","e","s">>,
      <<"t","s","c","o","n","f","i","g",".","j","s","o","n">>,
      <<"w","e","b","p","a","c","k",".","c","o","n","f","i","g",".","j","s">>,
      <<"n","e","x","t","-","e","n","v",".","d",".","t","s">>,
      <<".","e","s","l","i","n","t","r","c",".","j","s","o","n">> }

ignored_files == { Lower(k) : k \in IGNORED_FILES_LIST }

VibeStudioLower == <<"v","i","b","e","s","t","u","d","i","o">>

(***************************************************************************)
(* walk_code_files                                                         *)
(***************************************************************************)
\* Bound: the number of directories of a tree, the scan root included.
MaxDirs == 3

\* Directory names the trees are built from: a plain one, an ignored one in
\* lower and in mixed case, and the tool's own folder as it is spelt on disk.
DirNames ==
    { <<"s","r","c">>,
      <<"b","u","i","l","d">>,
      <<"B","u","i","l","d">>,
      <<"V","i","b","e","S","t","u","d","i","o">> }

\* File names: a matching one, one whose extension differs only in case, and
\* one whose lower-cased name is an ignored file.
FileNames ==
    { <<"a",".","p","y">>,
      <<"a",".","P","Y">>,
      <<"Y","a","r","n",".","l","o","c","k">> }

\* What a directory may hold: nothing, or every candidate file.
FileSetChoices == { {}, FileNames }

\* Extension strings as parse_arguments produces them (dot-prefixed).
ExtensionChoices ==
    { { <<".","p","y">> },
      { <<".","l","o","c","k">> },
      { <<".","p","y">>, <<".","l","o","c","k">> } }

\* A tree: directory 1 is the scan root, parent[d] < d is d's parent
\* (parent[1] = 0), siblings have distinct names.
Trees ==
    UNION { { t \in [ parent : [1..n -> 0..(n-1)],
                      dname  : [1..n -> DirNames],
                      files  : [1..n -> FileSetChoices] ] :
                /\ t.parent[1] = 0
                /\ \A d \in 2..n : t.parent[d] \in 1..(d-1)
                /\ \A d, e \in 2..n :
                      (d # e /\ t.parent[d] = t.parent[e])
                          => t.dname[d] # t.dname[e] }
            : n \in 1..MaxDirs }

Dirs(t) == DOMAIN t.parent

\* os.walk's `dirs` for root d
SubDirs(t, d) == { c \in Dirs(t) : t.parent[c] = d }

\* (mutation of IsPruned: the name is compared without lower-casing it)
IsPrunedCaseSensitive(name) ==
    ~ (name \notin ignored_folders /\ name # VibeStudioLower)

\* lines 88-92: d is dropped from dirs when its lower-cased name is ignored
IsPruned(name) ==
    LET d_lower == Lower(name)
    IN  ~ (d_lower \notin ignored_folders /\ d_lower # VibeStudioLower)

\* lines 87-95: dirs[:] = pruned_dirs
PrunedDirs(t, d) == { c \in SubDirs(t, d) : ~ IsPruned(t.dname[c]) }

\* line 98: the current root itself is ignored
RootIgnored(name) ==
    LET root_basename_lower == Lower(name)
    IN  root_basename_lower \in ignored_folders
            \/ root_basename_lower = VibeStudioLower

\* (mutation of FileYielded: the suffix is compared on the lower-cased name)
FileYieldedLowerCased(filename, exts) ==
    LET filename_lower == Lower(filename)
    IN  /\ filename_lower \notin ignored_files
        /\ \E ext \in exts : EndsWith(filename_lower, ext)

\* lines 104-110: the per-file filter
FileYielded(filename, exts) ==
    LET filename_lower == Lower(filename)
    IN  /\ filename_lower \notin ignored_files
        /\ \E ext \in exts : EndsWith(filename, ext)

\* the variables of the merger while another function is studied on its own
MergeIdle ==
    /\ max_chars = 75000
    /\ merge_map = <<>>
    /\ fallback_mode = FALSE
    /\ source_files = <<>>
    /\ merge_i = 1
    /\ file_index = 1
    /\ merged_count = 0
    /\ buffer_files = <<>>
    /\ buffer_content_size = 0
    /\ outputs = <<>>
    /\ mergePc = "idle"
    /\ cur = [original_name |-> <<>>, rel_path |-> <<>>, content |-> <<>>]
    /\ splits = <<>>
    /\ temp_offset = 0
    /\ part_i = 1
    /\ write_faults = 0
    /\ merge_result = FALSE
    /\ normal_flushes = 0
    /\ targets = <<>>
    /\ completed_splits = 0
    /\ failed_writes = 0

\* the variables of the walk while another function is studied on its own
WalkIdle ==
    /\ tree = [parent |-> <<0>>, dname |-> << <<"s","r","c">> >>,
               files |-> << {} >>]
    /\ extensions = {}
    /\ pending = <<>>
    /\ visited = {}
    /\ yielded = {}

\* the variables of main while another function is studied on its own
MainIdle ==
    /\ mainPc = "idle"
    /\ argv = <<>>
    /\ file_extensions = <<>>
    /\ source_exists = TRUE
    /\ txts_state = "absent"
    /\ merged_state = "absent"
    /\ calls = <<>>
    /\ main_result = "running"

\* the variables of the copier while another function is studied on its own
CopyIdle ==
    /\ os_sep = "/"
    /\ matched = <<>>
    /\ copy_i = 1
    /\ keys = <<>>
    /\ staging = <<>>
    /\ file_map = <<>>
    /\ copied_count = 0
    /\ error_count = 0
    /\ map_on_disk = [saved |-> FALSE, map |-> <<>>]
    /\ copyPc = "idle"
    /\ copy_result = FALSE
    /\ copy_ok = <<>>

WalkInit ==
    /\ MergeIdle
    /\ MainIdle
    /\ CopyIdle
    /\ tree \in Trees
    /\ extensions \in ExtensionChoices
    /\ pending = <<1>>
    /\ visited = {}
    /\ yielded = {}

\* One iteration of `for root, dirs, files in os.walk(folder_path)`: the
\* sub-directories are pruned in place (os.walk descends only into what is
\* left), then the files of this root are filtered, unless the root itself
\* is ignored.
WalkDir ==
    /\ pending # <<>>
    /\ LET root == Head(pending)
           kept == PrunedDirs(tree, root)
           \* os.walk visits the kept sub-directories before the siblings
           order == CHOOSE s \in [1..Cardinality(kept) -> kept] :
                        \A i, j \in DOMAIN s : i < j => s[i] < s[j]
       IN  /\ pending' = order \o Tail(pending)
           /\ visited' = visited \cup {root}
           /\ yielded' =
                 IF RootIgnored(tree.dname[root])
                 THEN yielded
                 ELSE yielded \cup
                        { <<root, f>> : f \in
                            { g \in tree.files[root] :
                                FileYielded(g, extensions) } }
    /\ UNCHANGED <<tree, extensions>>
    /\ UNCHANGED notWalkVars

WalkNext == WalkDir

SpecWalk == WalkInit /\ [][WalkNext]_vars

(***************************************************************************)
(* Claims about walk_code_files                                            *)
(***************************************************************************)
\* d and the directories above it, the scan root (directory 1) excluded
RECURSIVE BelowRootChain(_, _)
BelowRootChain(t, d) ==
    IF d <= 1 THEN {} ELSE {d} \cup BelowRootChain(t, t.parent[d])

\* the name is one of the ignored folders, or the tool's own folder
NameIsIgnoredFolder(name) ==
    Lower(name) \in (ignored_folders \cup {VibeStudioLower})

\* d is, or lies inside, an ignored directory below the scan root
InIgnoredSubtree(t, d) ==
    \E a \in BelowRootChain(t, d) : NameIsIgnoredFolder(t.dname[a])

\* C1: no yielded file lies, at any depth below the scan root, inside a
\* directory whose lower-cased name is ignored or is 'vibestudio', and no
\* directory of such a subtree is ever visited, whatever the extensions.
C1_NoFileFromIgnoredDirs ==
    /\ \A y \in yielded : ~ InIgnoredSubtree(tree, y[1])
    /\ \A d \in visited : ~ InIgnoredSubtree(tree, d)

\* C1 witness: the walk is over; a directory spelt 'Build' (ignored only
\* after lower-casing) below a visited parent holds a file that matches a
\* requested extension, and it was neither visited nor yielded from, while
\* a file of another directory was yielded.
C1_Witness ==
    /\ pending = <<>>
    /\ yielded # {}
    /\ \E d \in Dirs(tree) \ {1} :
          /\ tree.dname[d] = <<"B","u","i","l","d">>
          /\ tree.parent[d] \in visited
          /\ d \notin visited
          /\ \E f \in tree.files[d] : \E ext \in extensions : EndsWith(f, ext)

\* C18: when the lower-cased name of the scan root itself is an ignored
\* folder (or 'vibestudio'), nothing is yielded: neither a file of the root
\* nor a file of any directory below it.
C18_IgnoredRootYieldsNothing ==
    NameIsIgnoredFolder(tree.dname[1]) => yielded = {}

\* the character-by-character suffix test of the claim
HasSuffix(s, x) ==
    /\ Len(x) <= Len(s)
    /\ \A i \in 1..Len(x) : s[Len(s) - Len(x) + i] = x[i]

\* C7: in every visited directory that is not itself ignored, a file is
\* yielded iff its lower-cased name is not an ignored file and its name
\* ends, case-sensitively, with a requested extension.
C7_YieldedIffSuffixAndNotIgnored ==
    \A d \in visited :
        ~ NameIsIgnoredFolder(tree.dname[d]) =>
            \A f \in tree.files[d] :
                (<<d, f>> \in yielded) <=>
                    ( /\ Lower(f) \notin ignored_files
                      /\ \E ext \in extensions : HasSuffix(f, ext) )

\* C7 witness: one visited directory from which 'a.py' was yielded, while
\* 'a.PY' (case differs) and 'Yarn.lock' (ignored file, extension
\* requested) were not.
C7_Witness ==
    /\ <<".","l","o","c","k">> \in extensions
    /\ \E d \in visited :
          /\ tree.files[d] = FileNames
          /\ <<d, <<"a",".","p","y">> >> \in yielded
          /\ <<d, <<"a",".","P","Y">> >> \notin yielded
          /\ <<d, <<"Y","a","r","n",".","l","o","c","k">> >> \notin yielded

(***************************************************************************)
(* copy_code_files                                                         *)
(***************************************************************************)
\* Bound: the number of files the walk hands to the copier.
MaxMatched == 3

\* line 185: the length a key is cut to
MaxKeyLen == 200

Pad(n, c) == [i \in 1..n |-> c]

\* f with key k set to v (a dict assignment)
Put(f, k, v) == [x \in (DOMAIN f) \cup {k} |-> IF x = k THEN v ELSE f[x]]

\* os.path.join of the components of a relative path
RECURSIVE JoinPath(_, _)
JoinPath(comps, sep) ==
    IF Len(comps) = 0 THEN <<>>
    ELSE IF Len(comps) = 1 THEN comps[1]
    ELSE comps[1] \o <<sep>> \o JoinPath(Tail(comps), sep)

\* the character class of line 184: \ / : * ? " < > | and the space
UnsafeChars == {"\\", "/", ":", "*", "?", "\"", "<", ">", "|", " "}

\* re.sub(r'[\\/:*?"<>| ]+', '_', s): every maximal run of unsafe
\* characters becomes one underscore
NotDropped(c) == c # "dropped"

ReSubUnsafe(s) ==
    LET marked == [i \in DOMAIN s |->
                     IF s[i] \in UnsafeChars
                     THEN IF i > 1 /\ s[i-1] \in UnsafeChars
                          THEN "dropped"   \* inside a run: no output
                          ELSE "_"         \* the run's replacement
                     ELSE s[i]]
    IN  SelectSeq(marked, NotDropped)

\* lines 183-187
sanitize_rel_path(rel_path) ==
    LET safe == ReSubUnsafe(rel_path)
    IN  IF Len(safe) > MaxKeyLen
        THEN SubSeq(safe, 1, MaxKeyLen)
                \o <<"_","t","r","u","n","c","a","t","e","d">>
        ELSE safe

\* str.replace('\\', '/') of line 205
ReplaceBackslash(s) == [i \in DOMAIN s |-> IF s[i] = "\\" THEN "/" ELSE s[i]]

\* A directory name as long as the key limit.
LongDir == Pad(MaxKeyLen, "x")

\* Relative paths of matched files, as lists of components (directories,
\* then the file name): same base name under different directories, names
\* with a space, with an underscore, and directories past the key limit.
RelPathChoices ==
    { << <<"p",".","p","y">> >>,
      << <<"a">>, <<"p",".","p","y">> >>,
      << <<"b">>, <<"p",".","p","y">> >>,
      << <<"a">>, <<"q",".","p","y">> >>,
      << <<"a">>, <<"b">>, <<"p",".","p","y">> >>,
      << <<"a"," ","b">>, <<"p",".","p","y">> >>,
      << <<"a","_","b">>, <<"p",".","p","y">> >>,
      << LongDir, <<"a">>, <<"p",".","p","y">> >>,
      << LongDir, <<"b">>, <<"p",".","p","y">> >> }

DirOf(comps) == SubSeq(comps, 1, Len(comps) - 1)
BaseName(comps) == comps[Len(comps)]

IsProperPrefix(a, b) ==
    Len(a) < Len(b) /\ SubSeq(b, 1, Len(a)) = a

\* The order os.walk can produce: every file once, the files of one
\* directory together, a directory's files before those of the
\* directories below it.
WalkOrders ==
    UNION { { m \in [1..n -> RelPathChoices] :
                /\ \A i, j \in 1..n : i # j => m[i] # m[j]
                /\ \A i, j \in 1..n :
                      IsProperPrefix(DirOf(m[i]), DirOf(m[j])) => i < j
                /\ \A i, j, k \in 1..n :
                      (i < j /\ j < k /\ DirOf(m[i]) = DirOf(m[k]))
                          => DirOf(m[j]) = DirOf(m[i]) }
            : n \in 0..MaxMatched }

CopyInit ==
    /\ MergeIdle
    /\ WalkIdle
    /\ MainIdle
    /\ os_sep \in {"/", "\\"}
    /\ matched \in WalkOrders
    /\ copy_i = 1
    /\ keys = <<>>
    /\ staging = <<>>
    /\ file_map = <<>>
    /\ copied_count = 0
    /\ error_count = 0
    /\ map_on_disk = [saved |-> FALSE, map |-> <<>>]
    /\ copyPc = "loop"
    /\ copy_result = FALSE
    /\ copy_ok = <<>>

\* lines 189-211: one iteration of the loop over the matched files.
\* shutil.copy2 either copies the bytes, or raises; when it raises the
\* destination is untouched or left with an incomplete copy.
CopyOne ==
    /\ copyPc = "loop"
    /\ copy_i <= Len(matched)
    /\ LET comps == matched[copy_i]
           filename == BaseName(comps)
           rel_path == JoinPath(comps, os_sep)
           unique_key == sanitize_rel_path(rel_path)
       IN  /\ keys' = Append(keys, unique_key)
           /\ \/ /\ staging' = Put(staging, unique_key,
                                   [src |-> comps, complete |-> TRUE])
                 /\ copied_count' = copied_count + 1
                 /\ file_map' = Put(file_map, unique_key,
                          [original_filename |-> filename,
                           rel_path |-> ReplaceBackslash(rel_path)])
                 /\ copy_ok' = Append(copy_ok, TRUE)
                 /\ UNCHANGED error_count
              \/ /\ \/ UNCHANGED staging
                    \/ staging' = Put(staging, unique_key,
                                      [src |-> comps, complete |-> FALSE])
                 /\ error_count' = error_count + 1
                 /\ copy_ok' = Append(copy_ok, FALSE)
                 /\ UNCHANGED <<copied_count, file_map>>
    /\ copy_i' = copy_i + 1
    /\ UNCHANGED <<os_sep, matched, map_on_disk, copyPc, copy_result>>
    /\ UNCHANGED notCopyVars

\* the loop is exhausted
CopyLoopEnd ==
    /\ copyPc = "loop"
    /\ copy_i > Len(matched)
    /\ copyPc' = "save_map"
    /\ UNCHANGED <<os_sep, matched, copy_i, keys, staging, file_map,
                   copied_count, error_count, map_on_disk, copy_result,
                   copy_ok>>
    /\ UNCHANGED notCopyVars

\* (mutation of copy_return: success means that no copy failed)
copy_return_no_errors(copied, errors) == errors = 0

\* line 226: return copied_count > 0
copy_return(copied, errors) == copied > 0

\* lines 213-226: the map is dumped when it is not empty (the dump may
\* fail, which is only reported), and copied_count > 0 is returned
CopySaveMap ==
    /\ copyPc = "save_map"
    /\ IF DOMAIN file_map # {}
       THEN \/ map_on_disk' = [saved |-> TRUE, map |-> file_map]
            \/ UNCHANGED map_on_disk
       ELSE UNCHANGED map_on_disk
    /\ copy_result' = copy_return(copied_count, error_count)
    /\ copyPc' = "done"
    /\ UNCHANGED <<os_sep, matched, copy_i, keys, staging, file_map,
                   copied_count, error_count, copy_ok>>
    /\ UNCHANGED notCopyVars

CopyNext ==
    \/ CopyOne
    \/ CopyLoopEnd
    \/ CopySaveMap

SpecCopy == CopyInit /\ [][CopyNext]_vars

(***************************************************************************)
(* Claims about copy_code_files                                            *)
(***************************************************************************)
\* C6: two matched files with different relative paths and the same base
\* name get distinct unique keys, and when both were copied each has its own
\* map entry, attributed to its own relative path.
C6_SameBaseNameDistinctKeys ==
    \A i, j \in DOMAIN keys :
        (i # j /\ BaseName(matched[i]) = BaseName(matched[j])) =>
            /\ keys[i] # keys[j]
            /\ copyPc = "done" /\ error_count = 0 =>
                  /\ keys[i] \in DOMAIN file_map
                  /\ file_map[keys[i]].rel_path
                        = ReplaceBackslash(JoinPath(matched[i], os_sep))

\* the path a map entry records for the matched file number i
RecordedPath(i) == ReplaceBackslash(JoinPath(matched[i], os_sep))

\* C11: a failed copy does not stop the loop: every attempt, failed or
\* not, moves on to the next matched file, so at the end every matched file
\* was attempted; each failure is counted in error_count and leaves no map
\* entry recording the failed file; and copy_code_files returns False
\* exactly when no attempt succeeded.
C11_CopyFailureDoesNotAbort ==
    /\ Len(copy_ok) = copy_i - 1
    /\ copyPc \in {"save_map", "done"} => Len(copy_ok) = Len(matched)
    /\ error_count = Cardinality({ i \in DOMAIN copy_ok : ~ copy_ok[i] })
    /\ copied_count = Cardinality({ i \in DOMAIN copy_ok : copy_ok[i] })
    /\ \A i \in DOMAIN copy_ok :
          ~ copy_ok[i] =>
              \A k \in DOMAIN file_map :
                  file_map[k].rel_path # RecordedPath(i)
    /\ copyPc = "done" =>
          (copy_result = FALSE <=> \A i \in DOMAIN copy_ok : ~ copy_ok[i])

\* C11 witness: the first copy failed, a later one succeeded, all matched
\* files were attempted and the function returned True.
C11_Witness ==
    /\ copyPc = "done"
    /\ Len(matched) = 3
    /\ ~ copy_ok[1]
    /\ copy_ok[3]
    /\ error_count >= 1
    /\ copy_result = TRUE

\* C19: when copy_code_files is done and copied at least one file, the
\* keys of the persisted map are exactly the stems of the staged .txt
\* files, and each key's entry names the source file whose bytes the staged
\* file of that key holds, completely.
C19_MapAgreesWithStaging ==
    (copyPc = "done" /\ copied_count > 0) =>
        /\ map_on_disk.saved
        /\ DOMAIN map_on_disk.map = DOMAIN staging
        /\ \A k \in DOMAIN staging :
              /\ staging[k].complete
              /\ map_on_disk.map[k].original_filename = BaseName(staging[k].src)
              /\ map_on_disk.map[k].rel_path
                    = ReplaceBackslash(JoinPath(staging[k].src, os_sep))

(***************************************************************************)
(* merge_text_files and its closure write_buffer                           *)
(***************************************************************************)
\* Bound: the number of staged .txt files of a run.
MaxStaged == 2

\* Bound: how many writes of output files the disk may refuse in a run.
MaxWriteFaults == 1

\* line 348: the fixed estimate of an index block
index_est == 150

\* line 402: the safety margin of the packing test
SafetyMargin == 100

\* lines 347, 389, 398: the width of the banner lines
BannerWidth == 100

\* line 277: the width of the rule that closes the index
IndexRuleWidth == 35

\* CONFIG['output_filename_prefix']
output_filename_prefix == <<"M","e","r","g","e","d","F","i","l","e">>

\* Printable ASCII in code-point order (space is 32); the grave accent, 96,
\* is held by a placeholder
AsciiPrintable ==
    <<" ","!","\"","#","$","%","&","'","(",")","*","+",",","-",".","/",
      "0","1","2","3","4","5","6","7","8","9",":",";","<","=",">","?",
      "@","A","B","C","D","E","F","G","H","I","J","K","L","M","N","O",
      "P","Q","R","S","T","U","V","W","X","Y","Z","[","\\","]","^","_",
      "grave","a","b","c","d","e","f","g","h","i","j","k","l","m","n","o",
      "p","q","r","s","t","u","v","w","x","y","z","{","|","}","~">>

\* ord(c) for the characters staged names are made of
Ord(c) == 31 + (CHOOSE i \in DOMAIN AsciiPrintable : AsciiPrintable[i] = c)

\* a < b as Python compares str: by code point, a proper prefix first
StrLess(a, b) ==
    \E i \in 1..(Len(b)) :
        /\ \A j \in 1..(i-1) : j <= Len(a) /\ a[j] = b[j]
        /\ i - 1 <= Len(a)
        /\ \/ i = Len(a) + 1
           \/ i <= Len(a) /\ Ord(a[i]) < Ord(b[i])

Min(a, b) == IF a < b THEN a ELSE b
Max(a, b) == IF a > b THEN a ELSE b

DigitChars == <<"0","1","2","3","4","5","6","7","8","9">>

\* str(n) of a non-negative integer, as an f-string renders it
RECURSIVE Str(_)
Str(n) ==
    IF n < 10 THEN <<DigitChars[n + 1]>>
    ELSE Str(n \div 10) \o <<DigitChars[(n % 10) + 1]>>

RECURSIVE Concat(_)
Concat(seqs) ==
    IF Len(seqs) = 0 THEN <<>> ELSE Head(seqs) \o Concat(Tail(seqs))

\* s[a:b] as Python slices: negative bounds count from the end, bounds are
\* clipped to the string, an empty range gives ""
PySlice(s, a, b) ==
    LET n  == Len(s)
        a1 == IF a < 0 THEN Max(a + n, 0) ELSE Min(a, n)
        b1 == IF b < 0 THEN Max(b + n, 0) ELSE Min(b, n)
    IN  IF a1 >= b1 THEN <<>> ELSE SubSeq(s, a1 + 1, b1)

\* s.rfind(sub, start, end): the highest index in the slice at which sub
\* occurs entirely inside the slice, or -1
RFind(s, sub, start, end) ==
    LET n  == Len(s)
        a1 == IF start < 0 THEN Max(start + n, 0) ELSE Min(start, n)
        b1 == IF end < 0 THEN Max(end + n, 0) ELSE Min(end, n)
        hits == { i \in a1..(b1 - Len(sub)) :
                    SubSeq(s, i + 1, i + Len(sub)) = sub }
    IN  IF hits = {} THEN -1
        ELSE CHOOSE i \in hits : \A j \in hits : j <= i

\* the characters str.strip() removes
Whitespace == {" ", "\t", "\n", "\r", "\f"}

\* bool(chunk.strip())
StripNonEmpty(chunk) == \E i \in DOMAIN chunk : chunk[i] \notin Whitespace

\* f.read() in text mode: universal newlines, CR LF and a lone CR become LF
ReadText(raw) ==
    LET marked == [i \in DOMAIN raw |->
                     IF raw[i] = "\r"
                     THEN IF i < Len(raw) /\ raw[i+1] = "\n"
                          THEN "dropped" ELSE "\n"
                     ELSE raw[i]]
    IN  SelectSeq(marked, NotDropped)

Banner == Pad(BannerWidth, "=")

\* line 347
header_est(original_name) ==
    Len(Banner \o <<"\n","F","i","l","e",":"," ">> \o original_name
            \o <<" ","(","P","a","r","t"," ","X"," ","o","f"," ","Y",")","\n">> \o Banner \o <<"\n","\n">>)

\* line 389
part_header(original_name, part_num, total_parts) ==
    Banner \o <<"\n","F","i","l","e",":"," ">> \o original_name
        \o <<" ","(","P","a","r","t"," ">> \o Str(part_num) \o <<" ","o","f"," ">> \o Str(total_parts)
        \o <<")","\n">> \o Banner \o <<"\n","\n">>

\* line 390
path_disp(rel_path, part_num, total_parts) ==
    rel_path \o <<" ","(","P","a","r","t"," ">> \o Str(part_num) \o <<"/">> \o Str(total_parts)
        \o <<")">>

\* line 398
file_header(original_name) ==
    Banner \o <<"\n","F","i","l","e",":"," ">> \o original_name \o <<"\n">> \o Banner \o <<"\n","\n">>

\* line 330, with "e" standing for the text of the exception
ReadErrorText == <<"[","E","R","R","O","R",":"," ","C","o","u","l","d"," ","n","o","t"," ","r","e","a","d"," ","f","i","l","e"," ","c","o","n","t","e","n","t"," ","-"," ","e","]","\n">>

\* line 354
CodeExtensions ==
    { <<".","p","y">>, <<".","j","s">>, <<".","t","s">>, <<".","g","d">>, <<".","j","a","v","a">>, <<".","c","p","p">>, <<".","c">>,
      <<".","c","s">>, <<".","t","s","x">>, <<".","j","s","x">> }

is_code_file(original_name) ==
    \E ext \in CodeExtensions : EndsWith(original_name, ext)

\* lines 366-371
DeclarationTokens ==
    { <<"\n","f","u","n","c","t","i","o","n"," ">>, <<"\n","d","e","f"," ">>, <<"\n","f","u","n","c"," ">>, <<"\n","c","l","a","s","s"," ">>,
      <<"\n","e","x","p","o","r","t"," ">>, <<"\n","i","m","p","o","r","t"," ">> }

\* (mutation of LastDeclaration: no declaration is ever found)
LastDeclaration_none(content, start, end) == -1

\* lines 365-372: max() of the six rfind results
LastDeclaration(content, start, end) ==
    LET found == { RFind(content, tok, start, end) :
                     tok \in DeclarationTokens }
    IN  CHOOSE p \in found : \A q \in found : q <= p

\* lines 268-278: the index block of a buffer
index_body(buf) ==
    Concat([i \in DOMAIN buf |->
              <<"F","i","l","e"," ","#">> \o Str(i) \o <<":"," ">> \o buf[i].path \o <<"\n">>])

final_output(buf) ==
    LET index_header == <<"-","-","-"," ","I","N","D","E","X"," ","O","F"," ","F","I","L","E","S"," ","I","N"," ","T","H","I","S"," ","M","E","R","G","E"," ","-","-","-","\n">>
        full_content == Concat([i \in DOMAIN buf |-> buf[i].content])
        index == index_header \o index_body(buf)
                    \o Pad(IndexRuleWidth, "-") \o <<"\n","\n">>
    IN  index \o full_content

\* line 283 and line 393: the names of output files
merge_name(name_prefix, n) ==
    name_prefix \o <<"-">> \o Str(n) \o <<".","t","x","t">>

part_name(name_prefix, n, part_num) ==
    name_prefix \o <<"-">> \o Str(n) \o <<"-">> \o Str(part_num) \o <<".","t","x","t">>

\* (mutation of next_file_index: the counter is never advanced by a write)
next_file_index_stuck(fi, is_single_file_split) == fi

\* (mutation of next_file_index: a split-part write advances the counter too)
next_file_index_always(fi, is_single_file_split) == fi + 1

\* lines 298-299
next_file_index(fi, is_single_file_split) ==
    IF ~ is_single_file_split THEN fi + 1 ELSE fi

\* lines 263-299. st holds the nonlocal variables of the closure
\* (buffer_files, buffer_content_size, merged_count, file_index) and the
\* output folder; ok tells whether open()/write() succeeded. Beside the
\* file's name and text length the folder keeps, for each entry, what the
\* planner put into the buffer. normal_flushes counts the calls that found
\* a buffer to write with is_single_file_split false.
write_buffer(st, name, is_single_file_split, ok) ==
    IF st.buffer_files = <<>> THEN st
    ELSE [ buffer_files |-> <<>>,
           buffer_content_size |-> 0,
           merged_count |-> IF ok THEN st.merged_count + 1
                            ELSE st.merged_count,
           file_index |-> next_file_index(st.file_index,
                                          is_single_file_split),
           outputs |-> IF ok
                       THEN Append(st.outputs,
                              [ name |-> name,
                                n |-> st.file_index,
                                split |-> is_single_file_split,
                                entries |-> st.buffer_files,
                                length |-> Len(final_output(st.buffer_files)) ])
                       ELSE st.outputs,
           normal_flushes |-> IF is_single_file_split THEN st.normal_flushes
                              ELSE st.normal_flushes + 1,
           targets |-> Append(st.targets, name) ]

\* max_chars values: one under which a 150-character file is oversized,
\* one under which three small files share an output, one under which
\* dozens do; and two that leave no room for a chunk beside the header and
\* index estimates (header_est is 224 plus the length of the name).
MaxCharsChoices == {370, 378, 480, 900, 8000}

\* Bound: how far below zero the model follows temp_offset.
MaxOffsetDepth == 24

\* Bound: how many chunks the model follows the carving loop for.
MaxSplits == 6

\* Bound: the number of files of the run made of many empty files.
BatchFiles == 35

\* Staged files: <key>.txt with its raw text, whether it can be read, and
\* the file_map entry written for it (if any).
StagedFile(key, raw, readable, mapped, original_filename, rel_path) ==
    [ key |-> key, raw |-> raw, readable |-> readable, mapped |-> mapped,
      original_filename |-> original_filename, rel_path |-> rel_path ]

LongRelPath(n) == Pad(n, "d") \o <<"/","g",".","p","y">>

StagedChoices ==
    { \* a small file
      StagedFile(<<"a",".","p","y">>, <<"x","=","1","\n">>, TRUE, TRUE, <<"a",".","p","y">>, <<"a",".","p","y">>),
      \* 150 characters with no declaration in them
      StagedFile(<<"b","_","c",".","p","y">>, Pad(150, "x"), TRUE, TRUE, <<"c",".","p","y">>, <<"b","/","c",".","p","y">>),
      \* declarations inside the text
      StagedFile(<<"d",".","p","y">>,
                 Pad(50, "x") \o <<"\n","d","e","f"," ","f","(",")",":">> \o Pad(70, "y")
                    \o <<"\n","c","l","a","s","s"," ","K",":">> \o Pad(60, "z"),
                 TRUE, TRUE, <<"d",".","p","y">>, <<"d",".","p","y">>),
      \* a long run of blanks inside the text
      StagedFile(<<"e",".","m","d">>,
                 Pad(60, "x") \o Pad(150, " ") \o Pad(40, "y"),
                 TRUE, TRUE, <<"e",".","m","d">>, <<"e",".","m","d">>),
      \* blanks only, longer than the smaller max_chars
      StagedFile(<<"f",".","p","y">>, Pad(500, " "), TRUE, TRUE, <<"f",".","p","y">>, <<"f",".","p","y">>),
      \* longer than the smaller max_chars
      StagedFile(<<"h",".","p","y">>, Pad(490, "x"), TRUE, TRUE, <<"h",".","p","y">>, <<"h",".","p","y">>),
      \* a relative path of 60 characters
      StagedFile(<<"g","6","0",".","p","y">>, Pad(150, "x"), TRUE, TRUE, <<"g",".","p","y">>,
                 LongRelPath(55)),
      \* a relative path of 340 characters, a text that fits
      StagedFile(<<"g","3","4","0",".","p","y">>, Pad(100, "x"), TRUE, TRUE, <<"g",".","p","y">>,
                 LongRelPath(335)),
      \* a file that cannot be opened
      StagedFile(<<"u",".","p","y">>, <<"x">>, FALSE, TRUE, <<"u",".","p","y">>, <<"u",".","p","y">>),
      \* Windows line ends
      StagedFile(<<"w",".","p","y">>, <<"a","\r","\n","b","\r","\n">>, TRUE, TRUE, <<"w",".","p","y">>, <<"w",".","p","y">>),
      \* a key that continues the key a.py
      StagedFile(<<"a",".","p","y",".","b","a","k">>, <<"y","=","2">> \o <<"\n">>, TRUE, TRUE, <<"a",".","p","y",".","b","a","k">>, <<"a",".","p","y",".","b","a","k">>),
      \* a staged file the map does not know
      StagedFile(<<"z",".","p","y">>, <<"z","=","2","\n">>, TRUE, FALSE, <<"z",".","p","y">>, <<"z",".","p","y">>) }

\* a run of many empty files: f01.py, f02.py, ...
BatchName(i) ==
    <<"f">> \o (IF i < 10 THEN <<"0">> ELSE <<>>) \o Str(i) \o <<".","p","y">>

BatchChoices ==
    { StagedFile(BatchName(i), <<>>, TRUE, TRUE, BatchName(i), BatchName(i))
        : i \in 1..BatchFiles }

TxtName(f) == f.key \o <<".","t","x","t">>

\* (mutation of SortedByTxtName: the keys are sorted, not the file names)
RECURSIVE SortedByKey(_)
SortedByKey(S) ==
    IF S = {} THEN <<>>
    ELSE LET first == CHOOSE f \in S :
                        \A g \in S \ {f} : StrLess(f.key, g.key)
         IN  <<first>> \o SortedByKey(S \ {first})

\* line 247: sorted() of the staged paths (all in one folder)
RECURSIVE SortedByTxtName(_)
SortedByTxtName(S) ==
    IF S = {} THEN <<>>
    ELSE LET first == CHOOSE f \in S :
                        \A g \in S \ {f} : StrLess(TxtName(f), TxtName(g))
         IN  <<first>> \o SortedByTxtName(S \ {first})

\* the dict json.load returns for the staged files that have an entry
MapOf(S) ==
    LET keyed == { f \in S : f.mapped }
    IN  [ k \in { f.key : f \in keyed } |->
            LET f == CHOOSE g \in keyed : g.key = k
            IN  [original_filename |-> f.original_filename,
                 rel_path |-> f.rel_path] ]

NoCur == [original_name |-> <<>>, rel_path |-> <<>>, content |-> <<>>]

MergeInit ==
    /\ WalkIdle
    /\ MainIdle
    /\ CopyIdle
    /\ max_chars \in MaxCharsChoices
    /\ fallback_mode \in BOOLEAN
    /\ \E S \in { T \in SUBSET StagedChoices : Cardinality(T) <= MaxStaged }
                 \cup { BatchChoices } :
          /\ source_files = SortedByTxtName(S)
          /\ merge_map = IF fallback_mode THEN <<>> ELSE MapOf(S)
    /\ write_faults \in 0..MaxWriteFaults
    /\ merge_i = 1
    /\ file_index = 1
    /\ merged_count = 0
    /\ buffer_files = <<>>
    /\ buffer_content_size = 0
    /\ outputs = <<>>
    /\ mergePc = "start"
    /\ cur = NoCur
    /\ splits = <<>>
    /\ temp_offset = 0
    /\ part_i = 1
    /\ merge_result = FALSE
    /\ normal_flushes = 0
    /\ targets = <<>>
    /\ completed_splits = 0
    /\ failed_writes = 0

\* the closure's nonlocal state as one value
ClosureState ==
    [ buffer_files |-> buffer_files,
      buffer_content_size |-> buffer_content_size,
      merged_count |-> merged_count,
      file_index |-> file_index,
      outputs |-> outputs,
      normal_flushes |-> normal_flushes,
      targets |-> targets ]

\* the closure's state after an action, and the disk's refusals
SetClosureState(st, ok) ==
    /\ buffer_files' = st.buffer_files
    /\ buffer_content_size' = st.buffer_content_size
    /\ merged_count' = st.merged_count
    /\ file_index' = st.file_index
    /\ outputs' = st.outputs
    /\ normal_flushes' = st.normal_flushes
    /\ targets' = st.targets
    /\ write_faults' = IF ok THEN write_faults ELSE write_faults - 1
    /\ failed_writes' = IF ok THEN failed_writes ELSE failed_writes + 1

\* whether a write may end as `ok`: a refusal needs a write to happen and
\* the disk to have refusals left
WriteOutcome(ok, writes) ==
    ok \/ (writes /\ write_faults > 0)

\* (mutation of resolve: the map is never consulted)
resolve_always_fallback(unique_key) ==
    [original_name |-> unique_key, rel_path |-> unique_key]

\* lines 305-312
resolve(unique_key) ==
    IF fallback_mode \/ unique_key \notin DOMAIN merge_map
    THEN [original_name |-> unique_key, rel_path |-> unique_key]
    ELSE [original_name |-> merge_map[unique_key].original_filename,
          rel_path |-> merge_map[unique_key].rel_path]

\* lines 318-345. 'latin-1' decodes every byte string, so the loop over the
\* encodings always ends in its body: with the text, or, when open() or
\* read() raises something else than UnicodeDecodeError, with the error
\* text. The for-else branch (the binary sniff) is never entered.
read_content(f) ==
    IF f.readable THEN ReadText(f.raw) ELSE ReadErrorText

\* line 349
is_oversized(content, original_name) ==
    Len(content) + header_est(original_name) + index_est > max_chars

\* line 358: the room for a chunk
Available(original_name) ==
    max_chars - header_est(original_name) - index_est

\* (mutation of flush_before_split: the pending buffer is kept)
flush_before_split_never(buf) == FALSE

\* line 350
flush_before_split(buf) == buf # <<>>

\* (mutation of must_flush_first: the buffer is never written early)
must_flush_first_never(buf, size, entry_content, rel_path) == FALSE

\* line 402
must_flush_first(buf, size, entry_content, rel_path) ==
    LET future_index ==
            Concat([i \in DOMAIN buf |-> buf[i].path]) \o rel_path
    IN  /\ buf # <<>>
        /\ size + Len(entry_content) + Len(future_index) + SafetyMargin
              > max_chars

\* lines 249-261
MergeStart ==
    /\ mergePc = "start"
    /\ IF source_files = <<>>
       THEN mergePc' = "done" /\ merge_result' = FALSE
       ELSE mergePc' = "loop" /\ UNCHANGED merge_result
    /\ UNCHANGED <<max_chars, merge_map, fallback_mode, source_files,
                   merge_i, file_index, merged_count, buffer_files,
                   buffer_content_size, outputs, cur, splits, temp_offset,
                   part_i, write_faults, normal_flushes, targets,
                   completed_splits,
                   failed_writes>>
    /\ UNCHANGED notMergeVars

\* lines 301-352 for a file that has to be split: the pending buffer is
\* written, then the carving starts
MergeBeginSplit ==
    /\ mergePc = "loop"
    /\ merge_i <= Len(source_files)
    /\ LET f == source_files[merge_i]
           r == resolve(f.key)
           content == read_content(f)
           flush == flush_before_split(buffer_files)
       IN  /\ is_oversized(content, r.original_name)
           /\ \E ok \in BOOLEAN :
                 /\ WriteOutcome(ok, flush)
                 /\ SetClosureState(
                        IF flush
                        THEN write_buffer(ClosureState,
                                 merge_name(output_filename_prefix,
                                            file_index), FALSE, ok)
                        ELSE ClosureState, ok)
           /\ cur' = [original_name |-> r.original_name,
                      rel_path |-> r.rel_path, content |-> content]
    /\ splits' = <<>>
    /\ temp_offset' = 0
    /\ mergePc' = "carve"
    /\ UNCHANGED <<max_chars, merge_map, fallback_mode, source_files,
                   merge_i, part_i, merge_result, completed_splits>>
    /\ UNCHANGED notMergeVars

\* lines 358-381: the value one iteration of the while loop gives to
\* temp_offset; the chunk it takes is content[temp_offset:that value]
carve_cut(content, original_name, offset) ==
    LET available == max_chars - header_est(original_name) - index_est
        end == offset + available
        pos == LastDeclaration(content, offset, end)
    IN  IF end >= Len(content) THEN Len(content)
        ELSE IF is_code_file(original_name) /\ pos > offset
             THEN pos
             ELSE end

\* lines 357-382: one iteration of the while loop
MergeCarve ==
    /\ mergePc = "carve"
    /\ temp_offset < Len(cur.content)
    /\ temp_offset >= - MaxOffsetDepth
    /\ Len(splits) < MaxSplits
    /\ LET content == cur.content
           cut == carve_cut(content, cur.original_name, temp_offset)
           chunk == PySlice(content, temp_offset, cut)
       IN  /\ temp_offset' = cut
           /\ splits' = IF StripNonEmpty(chunk) THEN Append(splits, chunk)
                        ELSE splits
    /\ UNCHANGED <<max_chars, merge_map, fallback_mode, source_files,
                   merge_i, file_index, merged_count, buffer_files,
                   buffer_content_size, outputs, mergePc, cur, part_i,
                   write_faults, merge_result, normal_flushes, targets,
                   completed_splits, failed_writes>>
    /\ UNCHANGED notMergeVars

\* lines 384-387: the while loop is left, the parts are about to be written
MergeCarveEnd ==
    /\ mergePc = "carve"
    /\ ~ (temp_offset < Len(cur.content))
    /\ part_i' = 1
    /\ mergePc' = "parts"
    /\ UNCHANGED <<max_chars, merge_map, fallback_mode, source_files,
                   merge_i, file_index, merged_count, buffer_files,
                   buffer_content_size, outputs, cur, splits, temp_offset,
                   write_faults, merge_result, normal_flushes, targets,
                   completed_splits, failed_writes>>
    /\ UNCHANGED notMergeVars

\* lines 387-393: one part is put into the buffer and written
MergeWritePart ==
    /\ mergePc = "parts"
    /\ part_i <= Len(splits)
    /\ LET total_parts == Len(splits)
           part_num == part_i
           header == part_header(cur.original_name, part_num, total_parts)
           entry == [ name |-> cur.original_name,
                      path |-> path_disp(cur.rel_path, part_num, total_parts),
                      content |-> header \o splits[part_i] \o <<"\n","\n">>,
                      src |-> merge_i, part |-> part_num,
                      total |-> total_parts, hdr |-> Len(header) ]
           st == [ClosureState EXCEPT
                     !.buffer_files = Append(buffer_files, entry)]
       IN  \E ok \in BOOLEAN :
              /\ WriteOutcome(ok, TRUE)
              /\ SetClosureState(
                     write_buffer(st, part_name(output_filename_prefix,
                                                file_index, part_num),
                                  TRUE, ok), ok)
    /\ part_i' = part_i + 1
    /\ UNCHANGED <<max_chars, merge_map, fallback_mode, source_files,
                   merge_i, mergePc, cur, splits, temp_offset, merge_result,
                   completed_splits>>
    /\ UNCHANGED notMergeVars

\* lines 395-396: all parts are written, the counter advances once
MergePartsEnd ==
    /\ mergePc = "parts"
    /\ part_i > Len(splits)
    /\ file_index' = file_index + 1
    /\ completed_splits' = completed_splits + 1
    /\ merge_i' = merge_i + 1
    /\ mergePc' = "loop"
    /\ cur' = NoCur
    /\ splits' = <<>>
    /\ temp_offset' = 0
    /\ part_i' = 1
    /\ UNCHANGED <<max_chars, merge_map, fallback_mode, source_files,
                   merged_count, buffer_files, buffer_content_size, outputs,
                   write_faults, merge_result, normal_flushes, targets,
                   failed_writes>>
    /\ UNCHANGED notMergeVars

\* lines 301-349 and 398-406 for a file that fits: the buffer is written
\* first when the entry does not fit beside what it holds
MergeAppend ==
    /\ mergePc = "loop"
    /\ merge_i <= Len(source_files)
    /\ LET f == source_files[merge_i]
           r == resolve(f.key)
           content == read_content(f)
           header == file_header(r.original_name)
           entry_content == header \o content \o <<"\n","\n">>
           flush == must_flush_first(buffer_files, buffer_content_size,
                                     entry_content, r.rel_path)
           entry == [ name |-> r.original_name, path |-> r.rel_path,
                      content |-> entry_content,
                      src |-> merge_i, part |-> 0, total |-> 0,
                      hdr |-> Len(header) ]
       IN  /\ ~ is_oversized(content, r.original_name)
           /\ \E ok \in BOOLEAN :
                 /\ WriteOutcome(ok, flush)
                 /\ LET st == IF flush
                              THEN write_buffer(ClosureState,
                                       merge_name(output_filename_prefix,
                                                  file_index), FALSE, ok)
                              ELSE ClosureState
                    IN  SetClosureState(
                            [st EXCEPT
                               !.buffer_files = Append(@, entry),
                               !.buffer_content_size =
                                   @ + Len(entry_content)], ok)
    /\ merge_i' = merge_i + 1
    /\ UNCHANGED <<max_chars, merge_map, fallback_mode, source_files,
                   mergePc, cur, splits, temp_offset, part_i, merge_result,
                   completed_splits>>
    /\ UNCHANGED notMergeVars

\* (mutation of merge_return: the merge always reports success)
merge_return_always(count) == TRUE

\* line 411: return merged_count > 0
merge_return(count) == count > 0

\* lines 408-411: the last buffer is written and merged_count > 0 returned
MergeFinish ==
    /\ mergePc = "loop"
    /\ merge_i > Len(source_files)
    /\ \E ok \in BOOLEAN :
          /\ WriteOutcome(ok, buffer_files # <<>>)
          /\ LET st == IF buffer_files # <<>>
                       THEN write_buffer(ClosureState,
                                merge_name(output_filename_prefix,
                                           file_index), FALSE, ok)
                       ELSE ClosureState
             IN  /\ SetClosureState(st, ok)
                 /\ merge_result' = merge_return(st.merged_count)
    /\ mergePc' = "done"
    /\ UNCHANGED <<max_chars, merge_map, fallback_mode, source_files,
                   merge_i, cur, splits, temp_offset, part_i,
                   completed_splits>>
    /\ UNCHANGED notMergeVars

MergeNext ==
    \/ MergeStart
    \/ MergeBeginSplit
    \/ MergeCarve
    \/ MergeCarveEnd
    \/ MergeWritePart
    \/ MergePartsEnd
    \/ MergeAppend
    \/ MergeFinish

SpecMerge == MergeInit /\ [][MergeNext]_vars

(***************************************************************************)
(* Claims about merge_text_files                                           *)
(***************************************************************************)
\* the content portion of an entry: what follows the header banner, without
\* the two newlines that close the entry
EntryBody(e) == SubSeq(e.content, e.hdr + 1, Len(e.content) - 2)

\* the content portions of all written entries, in creation order
WrittenBodies ==
    Concat([i \in DOMAIN outputs |->
              Concat([j \in DOMAIN outputs[i].entries |->
                        EntryBody(outputs[i].entries[j])])])

\* the texts of all staged files, in processing order
StagedTexts ==
    Concat([i \in DOMAIN source_files |-> ReadText(source_files[i].raw)])

AllReadable == \A i \in DOMAIN source_files : source_files[i].readable

\* the staged files of all written entries: across the outputs in creation
\* order, within an output in index order (as positions in source_files)
WrittenSources ==
    Concat([i \in DOMAIN outputs |->
              [j \in DOMAIN outputs[i].entries |->
                 outputs[i].entries[j].src]])

\* C12 as stated: the written entries are in ascending order of the staged
\* unique keys of their files (each entry against the one after it).
C12_EntriesInKeyOrder ==
    LET ws == WrittenSources
    IN  \A a \in 1..(Len(ws) - 1) :
            ws[a] # ws[a + 1] =>
                StrLess(source_files[ws[a]].key, source_files[ws[a + 1]].key)

\* C12 amended: the written entries are in ascending order of the staged
\* file names, that is of the keys followed by ".txt" (each entry against
\* the one after it, which belongs to the same file or to a later name).
C12_EntriesInStagedNameOrder ==
    LET ws == WrittenSources
    IN  \A a \in 1..(Len(ws) - 1) :
            \/ ws[a] = ws[a + 1]
            \/ StrLess(TxtName(source_files[ws[a]]),
                       TxtName(source_files[ws[a + 1]]))

\* C12 witness: two files were written of which one key continues the
\* other; the longer key's entry comes first.
C12_Witness ==
    /\ mergePc = "done"
    /\ Len(WrittenSources) = 2
    /\ WrittenSources[1] # WrittenSources[2]
    /\ StrLess(source_files[WrittenSources[2]].key,
               source_files[WrittenSources[1]].key)

\* C13: merge_text_files returns False exactly when no output file was
\* written; with nothing staged it returns False and writes nothing; a
\* staged file that cannot be read does not end the loop: every staged file
\* is processed, and the unreadable one is written with the error text in
\* place of its content.
C13_FailureIffNoOutput ==
    mergePc = "done" =>
        /\ merge_result = FALSE <=> outputs = <<>>
        /\ source_files = <<>> => (merge_result = FALSE /\ outputs = <<>>)
        /\ source_files # <<>> => merge_i = Len(source_files) + 1
        /\ failed_writes = 0 =>
              \A i \in DOMAIN source_files :
                  ~ source_files[i].readable =>
                      \E o \in DOMAIN outputs :
                          \E j \in DOMAIN outputs[o].entries :
                              /\ outputs[o].entries[j].src = i
                              /\ EntryBody(outputs[o].entries[j])
                                    = ReadErrorText

\* C13 witness: the first staged file could not be read, the second could;
\* both were written and the merge returned True.
C13_Witness ==
    /\ mergePc = "done"
    /\ Len(source_files) = 2
    /\ ~ source_files[1].readable
    /\ source_files[2].readable
    /\ WrittenSources = <<1, 2>>
    /\ merge_result = TRUE

\* the name and the path an entry must show when they are taken from src
EntryShows(e, original_name, rel_path) ==
    /\ e.name = original_name
    /\ IF e.part = 0
       THEN /\ e.path = rel_path
            /\ SubSeq(e.content, 1, e.hdr) = file_header(original_name)
       ELSE /\ e.path = path_disp(rel_path, e.part, e.total)
            /\ SubSeq(e.content, 1, e.hdr)
                  = part_header(original_name, e.part, e.total)

\* C14: every written entry of a staged file whose key the loaded map
\* holds shows the map's original_filename in its header and the map's
\* rel_path in the index; every written entry of a file whose key is not in
\* the map, and every entry when the map could not be loaded, shows the
\* staged key in both places.
C14_FallbackPerFile ==
    \A o \in DOMAIN outputs :
        \A j \in DOMAIN outputs[o].entries :
            LET e == outputs[o].entries[j]
                f == source_files[e.src]
            IN  IF fallback_mode \/ ~ f.mapped
                THEN EntryShows(e, f.key, f.key)
                ELSE EntryShows(e, f.original_filename, f.rel_path)

\* C14 witness: one run wrote an entry resolved through the map (name and
\* path differ from the key) and an entry resolved by fallback.
C14_Witness ==
    /\ mergePc = "done"
    /\ ~ fallback_mode
    /\ Len(source_files) = 2
    /\ source_files[1].mapped
    /\ source_files[1].rel_path # source_files[1].key
    /\ ~ source_files[2].mapped
    /\ WrittenSources = <<1, 2>>

\* the positions p > s at which a declaration token lies entirely inside
\* the window [s, s + available) of content
DeclarationsInWindow(content, s, available) ==
    { p \in (s + 1)..(s + available) :
        \E tok \in DeclarationTokens :
            /\ p + Len(tok) <= s + available
            /\ p + Len(tok) <= Len(content)
            /\ SubSeq(content, p + 1, p + Len(tok)) = tok }

\* where a non-final chunk that starts at s has to end
ExpectedCut(content, original_name, s, available) ==
    LET decls == DeclarationsInWindow(content, s, available)
    IN  IF is_code_file(original_name) /\ decls # {}
        THEN CHOOSE p \in decls : \A q \in decls : q <= p
        ELSE s + available

\* a step of the carving loop that takes a non-final chunk
CarvesNonFinalChunk ==
    /\ mergePc = "carve"
    /\ mergePc' = "carve"
    /\ temp_offset < Len(cur.content)
    /\ temp_offset + Available(cur.original_name) < Len(cur.content)

C20_CarvingAdvances ==
    (mergePc = "carve" /\ temp_offset < Len(cur.content)) =>
        LET cut == carve_cut(cur.content, cur.original_name, temp_offset)
        IN  /\ cut > temp_offset
            /\ cut <= Len(cur.content)

\* the packing test of line 402 for the entry number j of a list of
\* entries, against the entries before it: TRUE when it fits beside them
FitsBeside(entries, j) ==
    Len(Concat([i \in 1..(j - 1) |-> entries[i].content]))
      + Len(entries[j].content)
      + Len(Concat([i \in 1..j |-> entries[i].path]))
      + SafetyMargin <= max_chars

\* the places <<output, position>> of the entries that staged file i has in
\* the written normal outputs
NormalEntriesOf(i) ==
    UNION { { <<o, j>> : j \in { k \in DOMAIN outputs[o].entries :
                                   outputs[o].entries[k].src = i } }
            : o \in { q \in DOMAIN outputs : ~ outputs[q].split } }

\* C17: a written entry is a split part exactly when its file is oversized
\* by the test of line 349, so a file that fits is never split; no file has
\* two entries in normal outputs, and in a finished run without write
\* failures a file that fits has exactly one, with its whole content; every
\* entry that shares an output with earlier entries passed the packing test
\* against them, and a normal output that directly continues the previous
\* normal output starts with an entry that failed it; two neighbours in one
\* output are together at most max_chars long.
C17_GreedyPacking ==
    /\ \A o \in DOMAIN outputs :
          LET es == outputs[o].entries
          IN  /\ \A j \in DOMAIN es :
                    LET f == source_files[es[j].src]
                    IN  /\ (es[j].part > 0)
                              <=> is_oversized(read_content(f), es[j].name)
                        /\ (es[j].part > 0) <=> outputs[o].split
                        /\ j > 1 => FitsBeside(es, j)
                        /\ j > 1 => Len(es[j - 1].content)
                                      + Len(es[j].content) <= max_chars
              /\ ( /\ o > 1
                   /\ ~ outputs[o].split
                   /\ ~ outputs[o - 1].split
                   /\ es[1].src
                        = outputs[o - 1].entries[Len(outputs[o - 1].entries)].src
                            + 1 )
                    => ~ FitsBeside(Append(outputs[o - 1].entries, es[1]),
                                    Len(outputs[o - 1].entries) + 1)
    /\ \A i \in DOMAIN source_files : Cardinality(NormalEntriesOf(i)) <= 1
    /\ (mergePc = "done" /\ failed_writes = 0) =>
          \A i \in DOMAIN source_files :
              LET f == source_files[i]
                  r == resolve(f.key)
              IN  ~ is_oversized(read_content(f), r.original_name) =>
                      \E p \in NormalEntriesOf(i) :
                          EntryBody(outputs[p[1]].entries[p[2]])
                              = read_content(f)

\* C17 witness: a finished run packed several files into its first output
\* and put the next file, which did not fit beside them, first into the
\* second.
C17_Witness ==
    /\ mergePc = "done"
    /\ Len(outputs) >= 2
    /\ ~ outputs[1].split
    /\ ~ outputs[2].split
    /\ Len(outputs[1].entries) >= 2
    /\ outputs[2].entries[1].src
          = outputs[1].entries[Len(outputs[1].entries)].src + 1

\* the names write_buffer has opened so far, as a set
TargetNames == { targets[i] : i \in DOMAIN targets }

\* C21: no two writes of a run open the same file name, whether they
\* succeed or not; every written output is named prefix-N.txt or
\* prefix-N-P.txt after the counter it was written under; a number N that
\* names the parts of an oversized file names no normal output; and
\* write_buffer called with an empty buffer returns the closure's state as
\* it was: nothing written, the counter unchanged.
C21_NoOutputNameTwice ==
    /\ \A a, b \in DOMAIN targets : a # b => targets[a] # targets[b]
    /\ \A o \in DOMAIN outputs :
          /\ outputs[o].name \in TargetNames
          /\ outputs[o].name =
                IF outputs[o].split
                THEN part_name(output_filename_prefix, outputs[o].n,
                               outputs[o].entries[1].part)
                ELSE merge_name(output_filename_prefix, outputs[o].n)
    /\ \A a, b \in DOMAIN outputs :
          (outputs[a].split /\ ~ outputs[b].split)
              => outputs[a].n # outputs[b].n
    /\ \A n \in 1..file_index :
          merge_name(output_filename_prefix, n) \in TargetNames =>
              \A p \in 1..(MaxSplits + 1) :
                  part_name(output_filename_prefix, n, p) \notin TargetNames
    /\ \A is_single_file_split, ok \in BOOLEAN :
          LET st == [ClosureState EXCEPT !.buffer_files = <<>>,
                                         !.buffer_content_size = 0]
          IN  write_buffer(st, merge_name(output_filename_prefix,
                                          file_index),
                           is_single_file_split, ok) = st

\* C21 witness: a finished run opened three names: prefix-1.txt for a
\* normal buffer, then prefix-2-1.txt and prefix-2-2.txt for the parts of
\* an oversized file, and one of the three writes failed.
C21_Witness ==
    /\ mergePc = "done"
    /\ targets = << merge_name(output_filename_prefix, 1),
                    part_name(output_filename_prefix, 2, 1),
                    part_name(output_filename_prefix, 2, 2) >>
    /\ failed_writes = 1
    /\ Len(outputs) = 2

\* C2: when every staged file was read and every write succeeded, the
\* content portions of the written entries, concatenated in creation order,
\* are exactly the texts of the staged files concatenated in processing
\* order: no character is lost or duplicated.
C2_RoundTripComplete ==
    (mergePc = "done" /\ failed_writes = 0 /\ AllReadable)
        => WrittenBodies = StagedTexts

\* the split-part outputs written for the staged file number i
PartsOf(i) ==
    SelectSeq(outputs, LAMBDA o : o.split /\ o.entries[1].src = i)

\* C3: a staged file whose text alone is longer than max_chars is written
\* as at least two parts, and the parts' chunks, concatenated in part order,
\* are exactly its text.
C3_OversizedSplitLossless ==
    ( /\ mergePc = "parts"
      /\ part_i > Len(splits)
      /\ failed_writes = 0
      /\ Len(cur.content) > max_chars )
        => /\ Len(PartsOf(merge_i)) >= 2
           /\ Concat([k \in DOMAIN PartsOf(merge_i) |->
                        EntryBody(PartsOf(merge_i)[k].entries[1])])
                 = cur.content

\* C4: every written output file is at most max_chars plus a fixed margin
\* long (the safety margin and the index estimate the code works with),
\* however many files it holds and however long their names and paths are.
C4_LengthWithinFixedMargin ==
    \A i \in DOMAIN outputs :
        outputs[i].length <= max_chars + SafetyMargin + index_est

\* C5: every split-part output file is at most max_chars long.
C5_PartWithinMaxChars ==
    \A i \in DOMAIN outputs :
        outputs[i].split => outputs[i].length <= max_chars

\* C8: an output file that holds a split part holds nothing else; while an
\* oversized file is carved and its parts are written the buffer holds
\* nothing between the steps, and it is empty when the next staged file
\* begins.
C8_PartsNeverShareAnOutput ==
    /\ [] ( /\ \A i \in DOMAIN outputs :
                 (\E j \in DOMAIN outputs[i].entries :
                      outputs[i].entries[j].part > 0)
                     => Len(outputs[i].entries) = 1
            /\ mergePc \in {"carve", "parts"} => buffer_files = <<>> )
    /\ [][ (mergePc = "parts" /\ mergePc' = "loop")
               => buffer_files' = <<>> ]_vars

\* C8 witness: a buffer holding another file's entry was written as
\* prefix-1.txt before the first part, and both parts of the oversized file
\* followed, each in an output of its own.
C8_Witness ==
    /\ Len(outputs) = 3
    /\ ~ outputs[1].split
    /\ outputs[2].split /\ outputs[2].entries[1].part = 1
    /\ outputs[3].split /\ outputs[3].entries[1].part = 2
    /\ outputs[1].entries[1].src # outputs[2].entries[1].src
    /\ mergePc = "done"

\* C9: file_index starts at 1 and grows by one with each written normal
\* buffer and by one after the parts of each oversized file, and with
\* nothing else; so the parts of one file carry one N, their names are
\* prefix-N-P.txt, and P runs from 1 to T.
C9_FileIndexAdvance ==
    /\ file_index = 1 + normal_flushes + completed_splits
    /\ \A i, j \in DOMAIN outputs :
          ( /\ outputs[i].split /\ outputs[j].split
            /\ outputs[i].entries[1].src = outputs[j].entries[1].src )
              => outputs[i].n = outputs[j].n
    /\ \A i \in DOMAIN outputs :
          outputs[i].split =>
              outputs[i].name =
                  output_filename_prefix \o <<"-">> \o Str(outputs[i].n)
                      \o <<"-">> \o Str(outputs[i].entries[1].part)
                      \o <<".","t","x","t">>
    /\ (failed_writes = 0 /\ mergePc = "done") =>
          \A i \in DOMAIN outputs :
              outputs[i].split =>
                  LET parts == PartsOf(outputs[i].entries[1].src)
                  IN  /\ Len(parts) = outputs[i].entries[1].total
                      /\ \A k \in DOMAIN parts : parts[k].entries[1].part = k

\* C9 witness: one normal buffer was written as prefix-1.txt, then the two
\* parts of an oversized file as prefix-2-1.txt and prefix-2-2.txt, and the
\* counter stands at 3.
C9_Witness ==
    /\ mergePc = "done"
    /\ file_index = 3
    /\ normal_flushes = 1
    /\ completed_splits = 1
    /\ Len(outputs) = 3
    /\ outputs[2].split /\ outputs[2].n = 2
    /\ outputs[3].split /\ outputs[3].n = 2

(***************************************************************************)
(* main                                                                    *)
(***************************************************************************)
\* Command lines: none, an extension without and with its dot, and two.
ArgvChoices ==
    { <<>>,
      << <<"p","y">> >>,
      << <<".","p","y">> >>,
      << <<".","p","y">>, <<"j","s">> >> }

\* What a folder may look like before the run.
FolderStates0 == {"absent", "stale"}

\* lines 433-439: each argument gets a leading dot unless it has one
parse_arguments(args) ==
    [i \in DOMAIN args |->
        IF Len(args[i]) > 0 /\ args[i][1] = "."
        THEN args[i] ELSE <<".">> \o args[i]]

\* (mutation of validate_paths: the source folder is not looked at)
validate_paths_no_source_check(src_exists, exts) ==
    exts # <<>>

\* lines 129-146: validate_paths' first result
validate_paths(src_exists, exts) ==
    IF ~ src_exists THEN FALSE
    ELSE IF exts = <<>> THEN FALSE
    ELSE TRUE

\* (mutation of safe_remove_folder: success is reported, nothing is removed)
safe_remove_folder_keeps(state) == state

\* lines 155-160: the folder as safe_remove_folder leaves it when it
\* returns True
safe_remove_folder(state) == "absent"

\* lines 168-170: the folder as os.makedirs(..., exist_ok=True) leaves it
\* when it returns: a missing folder is made, an existing one is kept as
\* it is
create_folder(state) == IF state = "absent" THEN "empty" ELSE state

\* a folder after this run wrote its files into it
Filled(state) == IF state = "empty" THEN "filled" ELSE state

MainInit ==
    /\ MergeIdle
    /\ WalkIdle
    /\ CopyIdle
    /\ mainPc = "parse_arguments"
    /\ argv \in ArgvChoices
    /\ file_extensions = <<>>
    /\ source_exists \in BOOLEAN
    /\ txts_state \in FolderStates0
    /\ merged_state \in FolderStates0
    /\ calls = <<>>
    /\ main_result = "running"

\* lines 445-448
MainParseArguments ==
    /\ mainPc = "parse_arguments"
    /\ file_extensions' = parse_arguments(argv)
    /\ IF parse_arguments(argv) = <<>>
       THEN mainPc' = "done" /\ main_result' = "failure"
       ELSE mainPc' = "validate_paths" /\ UNCHANGED main_result
    /\ UNCHANGED <<argv, source_exists, txts_state, merged_state, calls>>
    /\ UNCHANGED notMainVars

\* lines 450-455: validate_paths only reads (it counts the matching files)
MainValidatePaths ==
    /\ mainPc = "validate_paths"
    /\ IF validate_paths(source_exists, file_extensions)
       THEN mainPc' = "remove_txts" /\ UNCHANGED main_result
       ELSE mainPc' = "done" /\ main_result' = "failure"
    /\ UNCHANGED <<argv, file_extensions, source_exists, txts_state,
                   merged_state, calls>>
    /\ UNCHANGED notMainVars

\* lines 152-163 called from line 458, first operand: shutil.rmtree may raise
MainRemoveTxts ==
    /\ mainPc = "remove_txts"
    /\ calls' = Append(calls, <<"safe_remove_folder", "txts">>)
    /\ \E ok \in BOOLEAN :
          IF ok
          THEN /\ txts_state' = safe_remove_folder(txts_state)
               /\ mainPc' = "remove_merged"
               /\ UNCHANGED main_result
          ELSE /\ txts_state # "absent"
               /\ UNCHANGED txts_state
               /\ mainPc' = "done"
               /\ main_result' = "failure"
    /\ UNCHANGED <<argv, file_extensions, source_exists, merged_state>>
    /\ UNCHANGED notMainVars

\* line 458, second operand (evaluated only when the first removal succeeded)
MainRemoveMerged ==
    /\ mainPc = "remove_merged"
    /\ calls' = Append(calls, <<"safe_remove_folder", "merged">>)
    /\ \E ok \in BOOLEAN :
          IF ok
          THEN /\ merged_state' = safe_remove_folder(merged_state)
               /\ mainPc' = "create_txts"
               /\ UNCHANGED main_result
          ELSE /\ merged_state # "absent"
               /\ UNCHANGED merged_state
               /\ mainPc' = "done"
               /\ main_result' = "failure"
    /\ UNCHANGED <<argv, file_extensions, source_exists, txts_state>>
    /\ UNCHANGED notMainVars

\* lines 165-173 called from line 464, first operand: os.makedirs may raise
MainCreateTxts ==
    /\ mainPc = "create_txts"
    /\ calls' = Append(calls, <<"create_folder", "txts">>)
    /\ \E ok \in BOOLEAN :
          IF ok
          THEN /\ txts_state' = create_folder(txts_state)
               /\ mainPc' = "create_merged"
               /\ UNCHANGED main_result
          ELSE /\ UNCHANGED txts_state
               /\ mainPc' = "done"
               /\ main_result' = "failure"
    /\ UNCHANGED <<argv, file_extensions, source_exists, merged_state>>
    /\ UNCHANGED notMainVars

\* line 464, second operand
MainCreateMerged ==
    /\ mainPc = "create_merged"
    /\ calls' = Append(calls, <<"create_folder", "merged">>)
    /\ \E ok \in BOOLEAN :
          IF ok
          THEN /\ merged_state' = create_folder(merged_state)
               /\ mainPc' = "copy_code_files"
               /\ UNCHANGED main_result
          ELSE /\ UNCHANGED merged_state
               /\ mainPc' = "done"
               /\ main_result' = "failure"
    /\ UNCHANGED <<argv, file_extensions, source_exists, txts_state>>
    /\ UNCHANGED notMainVars

\* lines 469-473: copy_code_files returns copied_count > 0 (its body is
\* modelled by SpecCopy; here only whether anything was staged)
MainCopyCodeFiles ==
    /\ mainPc = "copy_code_files"
    /\ calls' = Append(calls, <<"copy_code_files", "txts">>)
    /\ \E copied \in BOOLEAN :
          IF copied
          THEN /\ txts_state' = Filled(txts_state)
               /\ mainPc' = "merge_text_files"
               /\ UNCHANGED main_result
          ELSE /\ UNCHANGED txts_state
               /\ mainPc' = "done"
               /\ main_result' = "failure"
    /\ UNCHANGED <<argv, file_extensions, source_exists, merged_state>>
    /\ UNCHANGED notMainVars

\* lines 475-479: merge_text_files returns merged_count > 0 (its body is
\* modelled by SpecMerge; here only whether anything was written)
MainMergeTextFiles ==
    /\ mainPc = "merge_text_files"
    /\ calls' = Append(calls, <<"merge_text_files", "merged">>)
    /\ \E merged \in BOOLEAN :
          IF merged
          THEN /\ merged_state' = Filled(merged_state)
               /\ mainPc' = "open_output_folder"
               /\ UNCHANGED main_result
          ELSE /\ UNCHANGED merged_state
               /\ mainPc' = "done"
               /\ main_result' = "failure"
    /\ UNCHANGED <<argv, file_extensions, source_exists, txts_state>>
    /\ UNCHANGED notMainVars

\* lines 481-489: open_output_folder swallows its errors; main returns True
MainOpenOutputFolder ==
    /\ mainPc = "open_output_folder"
    /\ mainPc' = "done"
    /\ main_result' = "success"
    /\ UNCHANGED <<argv, file_extensions, source_exists, txts_state,
                   merged_state, calls>>
    /\ UNCHANGED notMainVars

MainNext ==
    \/ MainParseArguments
    \/ MainValidatePaths
    \/ MainRemoveTxts
    \/ MainRemoveMerged
    \/ MainCreateTxts
    \/ MainCreateMerged
    \/ MainCopyCodeFiles
    \/ MainMergeTextFiles
    \/ MainOpenOutputFolder

SpecMain == MainInit /\ [][MainNext]_vars

(***************************************************************************)
(* Claims about main                                                       *)
(***************************************************************************)
MutatingCalls ==
    {"safe_remove_folder", "create_folder", "copy_code_files",
     "merge_text_files"}

\* C10: when the source root does not exist or no extension was given, main
\* returns failure and has invoked none of safe_remove_folder,
\* create_folder, copy_code_files, merge_text_files.
C10_ConfigErrorsAbortBeforeMutation ==
    (~ source_exists \/ argv = <<>>) =>
        /\ \A i \in DOMAIN calls : calls[i][1] \notin MutatingCalls
        /\ mainPc = "done" => main_result = "failure"

\* the calls main has made so far, by name and folder
ResetCalls ==
    << <<"safe_remove_folder", "txts">>, <<"safe_remove_folder", "merged">>,
       <<"create_folder", "txts">>, <<"create_folder", "merged">> >>

\* C15: copy_code_files is called only after safe_remove_folder and
\* create_folder were called, in this order, for the staging and for the
\* output folder, and all four succeeded: when copying is about to start
\* both folders exist and are empty, merging starts with an empty output
\* folder, and after a successful run both folders hold files of this run
\* only (nothing that was there before).
C15_FoldersResetBeforeUse ==
    /\ \A i \in DOMAIN calls :
          calls[i][1] \in {"copy_code_files", "merge_text_files"} =>
              /\ i > 4
              /\ SubSeq(calls, 1, 4) = ResetCalls
              /\ txts_state # "stale"
              /\ merged_state # "stale"
    /\ mainPc = "copy_code_files" =>
          (txts_state = "empty" /\ merged_state = "empty")
    /\ mainPc = "merge_text_files" =>
          (txts_state = "filled" /\ merged_state = "empty")
    /\ main_result = "success" =>
          (txts_state = "filled" /\ merged_state = "filled")

\* C15 witness: a run made the four reset calls, then copied and merged,
\* and succeeded with both folders filled.
C15_Witness ==
    /\ main_result = "success"
    /\ Len(calls) = 6
    /\ SubSeq(calls, 1, 4) = ResetCalls
    /\ txts_state = "filled"
    /\ merged_state = "filled"

\* C10 witness: extensions were given, the source root is missing, and
\* main has returned failure out of validate_paths.
C10_Witness ==
    /\ ~ source_exists
    /\ file_extensions # <<>>
    /\ mainPc = "done"
    /\ main_result = "failure"

====
